---- MODULE Spec2Model ----
(***************************************************************************)
(* Coincheck broker adapter (src/src/Coincheck/BrokerAdapterImpl.ts):      *)
(* order reconciliation (refresh), cancellation and quote fetching.        *)
(*                                                                         *)
(* Amounts are integers counted in ticks; the rounding utility eRound      *)
(* rounds to a multiple of Prec ticks.  Every remote call is a suspension  *)
(* point: a call is one action that issues the request and one action per  *)
(* reply.  Calls on one order are serialized (pc[o] = "idle" to start).    *)
(***************************************************************************)
EXTENDS Integers, Sequences, FiniteSets, TLC

\* ---- bounds of the model ----
MaxTime == 1        \* the wall clock runs over 0..MaxTime
MaxFeed == 2        \* longest transactions feed / exchange ledger
MaxOpen == 2        \* longest open-orders snapshot
MaxBook == 3        \* order-book sides have up to QuoteCap + MaxBook levels

\* ---- the program's data ----
Orders == {1, 2}                    \* two Order instances; brokerOrderId = index
Sizes == {4, 6}                     \* requested sizes, in ticks
Reconciled == {1}                   \* the orders the caller reconciles
Prec == 2                           \* ticks per unit of the rounding precision
PendingAmounts == {0, 3, 6, 8}   \* pending_amount values a reply may carry
TxKinds == { [created_at |-> 1, rate |-> 2, btc |-> -3],
             [created_at |-> 2, rate |-> 1, btc |-> 2],
             [created_at |-> 2, rate |-> 3, btc |-> 1] }

Coincheck == "Coincheck"            \* this adapter's broker identity
OtherBroker == "OtherBroker"        \* the tag of an order of another broker
Brokers == {Coincheck, OtherBroker}
Cash == "Cash"
MarginOpen == "MarginOpen"
NetOut == "NetOut"
UnmappedMode == "Unmapped"          \* a mode value outside the enumeration
CashMarginTypes == {Cash, MarginOpen, NetOut, UnmappedMode}
Positions == {0, 1}                 \* positions a strategy may report

Open == "Open"
PartiallyFilled == "PartiallyFilled"
Filled == "Filled"
Canceled == "Canceled"
OrderStatus == {Open, PartiallyFilled, Filled, Canceled}
Terminal == {Filled, Canceled}

VARIABLES
  order,      \* order[o]: the Order object's fields
  pc,         \* pc[o]: where the call in flight on order o is suspended
  pre,        \* pre[o]: the fields of order o when its current/last call began
  last,       \* last[o]: what the current/last call on o did and saw
  prev,       \* prev[o]: while a call runs, what the call before it saw
  issued,     \* issued[o]: the remote calls the current/last call has issued
  now,        \* the wall clock read by new Date()
  book,       \* exchange side: book[o] = [listed, pending]
  ledger,     \* exchange side: the transactions ledger
  quotes,     \* the fetchQuotes call: [pc, outcome, failed, response, result]
  adapter     \* the adapter: config, strategyMap and its getBtcPosition call

vars == <<order, pc, pre, last, prev, issued, now, book, ledger, quotes, adapter>>
orderVars == <<order, pc, pre, last, prev, issued>>
exchVars == <<book, ledger>>

\* ---- numeric helpers (util.ts) ----
Abs(n) == IF n < 0 THEN -n ELSE n

\* round to the rounding precision, halves up
eRound(n) == Prec * ((2 * n + Prec) \div (2 * Prec))

\* equal within `tolerance` units of the rounding precision
almostEqual(a, b, tolerance) == Abs(a - b) <= tolerance * Prec

\* ---- remote replies ----
Entry(id, has, amount) == [id |-> id, has_pending |-> has, pending_amount |-> amount]
Entries == { Entry(id, TRUE, p) : id \in Orders, p \in PendingAmounts }
             \cup { Entry(id, FALSE, 0) : id \in Orders }
NoEntry == Entry(0, FALSE, 0)

Tx(id, k) == [order_id |-> id, created_at |-> k.created_at, rate |-> k.rate,
              btc |-> k.btc]
Txs == { Tx(id, k) : id \in Orders, k \in TxKinds }

SeqsUpTo(S, n) == UNION { [1..k -> S] : k \in 0..n }
OpenOrdersReplies == SeqsUpTo(Entries, MaxOpen)
Feeds == SeqsUpTo(Txs, MaxFeed)

\* _.find(reply.orders, o => o.id === order.brokerOrderId)
RECURSIVE Find(_, _)
Find(orders, id) ==
  IF orders = <<>> THEN NoEntry
  ELSE IF Head(orders).id = id THEN Head(orders)
  ELSE Find(Tail(orders), id)

\* brokerOrder !== undefined
Found(orders, id) == \E i \in 1..Len(orders) : orders[i].id = id

\* brokerOrder.pending_amount === undefined || brokerOrder.pending_amount === 0
IsUnexpected_OnlyUndefined(brokerOrder) == ~brokerOrder.has_pending
IsUnexpected(brokerOrder) ==
  ~brokerOrder.has_pending \/ brokerOrder.pending_amount = 0

\* order.filledSize = eRound(order.size - brokerOrder.pending_amount)
OpenFilledSize_Pending(size, brokerOrder) == eRound(brokerOrder.pending_amount)
OpenFilledSize(size, brokerOrder) == eRound(size - brokerOrder.pending_amount)

\* if (order.filledSize > 0) order.status = OrderStatus.PartiallyFilled
OpenStatus_ElseOpen(status, filledSize) ==
  IF filledSize > 0 THEN PartiallyFilled ELSE Open
OpenStatus(status, filledSize) ==
  IF filledSize > 0 THEN PartiallyFilled ELSE status

\* .filter(x => x.order_id === order.brokerOrderId)
RECURSIVE Matching(_, _)
Matching(feed, id) ==
  IF feed = <<>> THEN <<>>
  ELSE IF Head(feed).order_id = id THEN <<Head(feed)>> \o Matching(Tail(feed), id)
  ELSE Matching(Tail(feed), id)

\* transactions.length === 0
NothingFound_Never(transactions) == FALSE
NothingFound(transactions) == Len(transactions) = 0

\* the Execution built from one transaction
Execution(x) == [execTime |-> x.created_at, price |-> x.rate, size |-> Abs(x.btc)]

\* order.executions = transactions.map(...)
NewExecutions_Appended(executions, transactions) ==
  executions \o [i \in 1..Len(transactions) |-> Execution(transactions[i])]
NewExecutions(executions, transactions) ==
  [i \in 1..Len(transactions) |-> Execution(transactions[i])]

\* _.sumBy(order.executions, x => x.size)
RECURSIVE SumSize(_)
SumSize(execs) == IF execs = <<>> THEN 0 ELSE Head(execs).size + SumSize(Tail(execs))

\* almostEqual(order.filledSize, order.size, 1) ? Filled : Canceled
HistoricalStatus_Partial(filledSize, size) ==
  IF almostEqual(filledSize, size, 1) THEN Filled
  ELSE IF filledSize > 0 THEN PartiallyFilled ELSE Canceled
HistoricalStatus(filledSize, size) ==
  IF almostEqual(filledSize, size, 1) THEN Filled ELSE Canceled

\* !reply.success
CancelFails_Never(success) == FALSE
CancelFails(success) == ~success

\* ---- call bookkeeping ----
NoCall == [op |-> "none", outcome |-> "none", ack |-> "none",
           opened |-> FALSE, found |-> FALSE, entry |-> NoEntry,
           fed |-> FALSE, feed |-> <<>>, again |-> FALSE, overlap |-> FALSE]
Started(op) == [NoCall EXCEPT !.op = op, !.outcome = "running"]
NoSeen == [historical |-> FALSE, txs |-> <<>>]
\* what a finished call on order o saw on the historical path
Seen(c, o) ==
  IF c.outcome = "ok" /\ c.fed /\ Matching(c.feed, o) # <<>>
    THEN [historical |-> TRUE, txs |-> Matching(c.feed, o)]
    ELSE NoSeen

NewOrder(size) == [size |-> size, creationTime |-> 1, filledSize |-> 0,
                   executions |-> <<>>, status |-> Open, lastUpdated |-> 0,
                   broker |-> Coincheck, cashMarginType |-> Cash]
TaggedOrder(size, broker, mode) ==
  [NewOrder(size) EXCEPT !.broker = broker, !.cashMarginType = mode]

\* new Map([[Cash, new CashStrategy], [MarginOpen, ...], [NetOut, ...]])
StrategyMap == [m \in {Cash, MarginOpen, NetOut} |->
                  CASE m = Cash -> "CashStrategy"
                    [] m = MarginOpen -> "MarginOpenStrategy"
                    [] m = NetOut -> "NetOutStrategy"]
Undefined == "undefined"
\* this.strategyMap.get(mode)
StrategyMapGet(map, mode) == IF mode \in DOMAIN map THEN map[mode] ELSE Undefined

NewAdapter(mode) ==
  [config |-> [cashMarginType |-> mode], strategyMap |-> StrategyMap,
   pc |-> "idle", outcome |-> "none", invoked |-> <<>>, position |-> 0]

Init ==
  /\ order \in [Orders -> { NewOrder(s) : s \in Sizes }]
  /\ pc = [o \in Orders |-> "idle"]
  /\ pre = order
  /\ last = [o \in Orders |-> NoCall]
  /\ prev = [o \in Orders |-> NoSeen]
  /\ issued = [o \in Orders |-> <<>>]
  /\ now = 0
  /\ book = [o \in Orders |-> [listed |-> TRUE, pending |-> order[o].size]]
  /\ ledger = <<>>
  /\ quotes = [pc |-> "idle", outcome |-> "none", failed |-> FALSE,
               response |-> [asks |-> <<>>, bids |-> <<>>], result |-> <<>>]
  /\ adapter = NewAdapter(Cash)

\* time passes between any two steps
Tick ==
  /\ now < MaxTime
  /\ now' = now + 1
  /\ UNCHANGED <<orderVars, exchVars, quotes, adapter>>

\* a call on order o begins: remember the order and what the last call saw
Begin(o, op, request) ==
  /\ pc[o] = "idle"
  /\ pre' = [pre EXCEPT ![o] = order[o]]
  /\ prev' = [prev EXCEPT ![o] = Seen(last[o], o)]
  /\ last' = [last EXCEPT ![o] = Started(op)]
  /\ issued' = [issued EXCEPT ![o] = <<request>>]

\* a call on order o ends, having seen `seen`; overlap: a call on another
\* order is suspended at that moment
End(o, seen) ==
  /\ pc' = [pc EXCEPT ![o] = "idle"]
  /\ last' = [last EXCEPT ![o] =
       [seen EXCEPT !.overlap = \E p \in Orders \ {o} : pc[p] # "idle"]]
  /\ prev' = [prev EXCEPT ![o] = NoSeen]
  /\ UNCHANGED <<pre, issued>>

\* ---- cancel ----
CancelCall_Optimistic(o) ==
  /\ Begin(o, "cancel", [call |-> "cancelOrder", arg |-> o])
  /\ pc' = [pc EXCEPT ![o] = "awaitCancel"]
  /\ order' = [order EXCEPT ![o].status = Canceled]
  /\ UNCHANGED <<now, exchVars, quotes, adapter>>

CancelCall(o) ==
  /\ Begin(o, "cancel", [call |-> "cancelOrder", arg |-> o])
  /\ pc' = [pc EXCEPT ![o] = "awaitCancel"]
  /\ UNCHANGED <<order, now, exchVars, quotes, adapter>>

CancelReply_SharedTarget(o, success) ==
  /\ pc[o] = "awaitCancel"
  /\ LET seen == [last[o] EXCEPT !.ack = IF success THEN "true" ELSE "false"]
         others == { p \in Orders \ {o} : pc[p] # "idle" }
         target == IF others = {} THEN o ELSE CHOOSE p \in others : TRUE
     IN IF CancelFails(success)
          THEN /\ End(o, [seen EXCEPT !.outcome = "CancelFailed"])
               /\ UNCHANGED order
          ELSE /\ order' = [order EXCEPT ![target].lastUpdated = now,
                                         ![target].status = Canceled]
               /\ End(o, [seen EXCEPT !.outcome = "ok"])
  /\ UNCHANGED <<now, exchVars, quotes, adapter>>

CancelReply(o, success) ==
  /\ pc[o] = "awaitCancel"
  /\ LET seen == [last[o] EXCEPT !.ack = IF success THEN "true" ELSE "false"]
     IN IF CancelFails(success)
          THEN /\ End(o, [seen EXCEPT !.outcome = "CancelFailed"])
               /\ UNCHANGED order
          ELSE /\ order' = [order EXCEPT ![o].lastUpdated = now,
                                         ![o].status = Canceled]
               /\ End(o, [seen EXCEPT !.outcome = "ok"])
  /\ UNCHANGED <<now, exchVars, quotes, adapter>>

\* cancelOrder throws
CancelError(o) ==
  /\ pc[o] = "awaitCancel"
  /\ End(o, [last[o] EXCEPT !.outcome = "TransportError"])
  /\ UNCHANGED <<order, now, exchVars, quotes, adapter>>

\* ---- refresh ----
RefreshCall_Eager(o) ==
  /\ pc[o] = "idle"
  /\ pre' = [pre EXCEPT ![o] = order[o]]
  /\ prev' = [prev EXCEPT ![o] = Seen(last[o], o)]
  /\ last' = [last EXCEPT ![o] = Started("refresh")]
  /\ issued' = [issued EXCEPT ![o] =
       <<[call |-> "getOpenOrders", arg |-> 0],
         [call |-> "getTransactionsWithStartDate",
          arg |-> order[o].creationTime - 1]>>]
  /\ pc' = [pc EXCEPT ![o] = "awaitOpenOrders"]
  /\ UNCHANGED <<order, now, exchVars, quotes, adapter>>

RefreshCall(o) ==
  /\ Begin(o, "refresh", [call |-> "getOpenOrders", arg |-> 0])
  /\ pc' = [pc EXCEPT ![o] = "awaitOpenOrders"]
  /\ UNCHANGED <<order, now, exchVars, quotes, adapter>>

OpenOrdersReply(o, orders) ==
  /\ pc[o] = "awaitOpenOrders"
  /\ LET brokerOrder == Find(orders, o)
         filledSize == OpenFilledSize(order[o].size, brokerOrder)
         seen == [last[o] EXCEPT !.opened = TRUE, !.found = Found(orders, o),
                                 !.entry = brokerOrder]
     IN IF Found(orders, o)
          THEN IF IsUnexpected(brokerOrder)
                 THEN /\ End(o, [seen EXCEPT !.outcome = "UnexpectedReply"])
                      /\ UNCHANGED order
                 ELSE /\ order' = [order EXCEPT
                            ![o].filledSize = filledSize,
                            ![o].status = OpenStatus(@, filledSize),
                            ![o].lastUpdated = now]
                      /\ End(o, [seen EXCEPT !.outcome = "ok"])
          ELSE /\ pc' = [pc EXCEPT ![o] = "awaitTransactions"]
               /\ last' = [last EXCEPT ![o] = seen]
               /\ issued' = [issued EXCEPT ![o] = Append(@,
                    [call |-> "getTransactionsWithStartDate",
                     arg |-> order[o].creationTime - 1])]
               /\ UNCHANGED <<order, pre, prev>>
  /\ UNCHANGED <<now, exchVars, quotes, adapter>>

\* getOpenOrders throws
OpenOrdersError(o) ==
  /\ pc[o] = "awaitOpenOrders"
  /\ End(o, [last[o] EXCEPT !.outcome = "TransportError"])
  /\ UNCHANGED <<order, now, exchVars, quotes, adapter>>

TransactionsReply(o, feed) ==
  /\ pc[o] = "awaitTransactions"
  /\ LET transactions == Matching(feed, o)
         executions == NewExecutions(order[o].executions, transactions)
         filledSize == eRound(SumSize(executions))
         seen == [last[o] EXCEPT !.fed = TRUE, !.feed = feed, !.outcome = "ok",
                    !.again = prev[o].historical /\ prev[o].txs = transactions]
     IN /\ IF NothingFound(transactions)
             THEN UNCHANGED order
             ELSE order' = [order EXCEPT
                     ![o].executions = executions,
                     ![o].filledSize = filledSize,
                     ![o].status = HistoricalStatus(filledSize, order[o].size),
                     ![o].lastUpdated = now]
        /\ End(o, seen)
  /\ UNCHANGED <<now, exchVars, quotes, adapter>>

\* getTransactionsWithStartDate throws
TransactionsError(o) ==
  /\ pc[o] = "awaitTransactions"
  /\ End(o, [last[o] EXCEPT !.outcome = "TransportError"])
  /\ UNCHANGED <<order, now, exchVars, quotes, adapter>>

Next ==
  \/ Tick
  \/ \E o \in Reconciled : CancelCall(o)
  \/ \E o \in Reconciled : \E success \in BOOLEAN : CancelReply(o, success)
  \/ \E o \in Reconciled : CancelError(o)
  \/ \E o \in Reconciled : RefreshCall(o)
  \/ \E o \in Reconciled : \E orders \in OpenOrdersReplies : OpenOrdersReply(o, orders)
  \/ \E o \in Reconciled : OpenOrdersError(o)
  \/ \E o \in Reconciled : \E feed \in Feeds : TransactionsReply(o, feed)
  \/ \E o \in Reconciled : TransactionsError(o)

Spec == Init /\ [][Next]_vars

\* ---- the exchange, when it behaves correctly ----
\* the open-orders snapshot and the transactions feed the exchange serves
BookEntries ==
  SelectSeq([o \in Orders |-> Entry(o, TRUE, book[o].pending)],
            LAMBDA e : book[e.id].listed)

\* part of a listed order is matched: its pending amount drops, stays positive
ExchFill(o, p) ==
  /\ book[o].listed
  /\ 0 < p /\ p < book[o].pending
  /\ book' = [book EXCEPT ![o].pending = p]
  /\ UNCHANGED <<orderVars, now, ledger, quotes, adapter>>

\* a listed order leaves the open book (filled or canceled) for good
ExchDelist(o) ==
  /\ book[o].listed
  /\ book' = [book EXCEPT ![o].listed = FALSE]
  /\ UNCHANGED <<orderVars, now, ledger, quotes, adapter>>

\* a transaction becomes visible in the feed; the feed only grows
ExchRecord(tx) ==
  /\ Len(ledger) < MaxFeed
  /\ ledger' = Append(ledger, tx)
  /\ UNCHANGED <<orderVars, now, book, quotes, adapter>>

NextExchange ==
  \/ Tick
  \/ \E o \in Orders : \E p \in PendingAmounts : ExchFill(o, p)
  \/ \E o \in Orders : ExchDelist(o)
  \/ \E tx \in Txs : ExchRecord(tx)
  \/ \E o \in Reconciled : CancelCall(o)
  \/ \E o \in Reconciled : \E success \in BOOLEAN : CancelReply(o, success)
  \/ \E o \in Reconciled : CancelError(o)
  \/ \E o \in Reconciled : RefreshCall(o)
  \/ \E o \in Reconciled : OpenOrdersReply(o, BookEntries)
  \/ \E o \in Reconciled : OpenOrdersError(o)
  \/ \E o \in Reconciled : TransactionsReply(o, ledger)
  \/ \E o \in Reconciled : TransactionsError(o)

SpecExchange == Init /\ [][NextExchange]_vars

\* ---- fetchQuotes ----
QuoteCap == 100
Ask == "Ask"
Bid == "Bid"
BookLens == 0..2 \cup ((QuoteCap - 1)..(QuoteCap + MaxBook))
BookSeeds == {0, 1}

\* an order-book side of n levels, each a <<price, size>> pair
Levels(n, first, step, seed) ==
  [i \in 1..n |-> <<first + step * i, 1 + ((i + seed) % 3)>>]
OrderBooks ==
  { [asks |-> Levels(a, 1000, 1, seed), bids |-> Levels(b, 1000, -1, seed)] :
      a \in BookLens, b \in BookLens, seed \in BookSeeds }
NoBook == [asks |-> <<>>, bids |-> <<>>]

Quote(broker, side, price, size) ==
  [broker |-> broker, side |-> side, price |-> price, size |-> size]

Take_Uncapped(levels, n) == levels

\* _(levels).take(n)
Take(levels, n) == SubSeq(levels, 1, IF Len(levels) < n THEN Len(levels) ELSE n)

mapToQuote(orderBooksResponse) ==
  LET a == Take(orderBooksResponse.asks, QuoteCap)
      b == Take(orderBooksResponse.bids, QuoteCap)
      asks == [i \in 1..Len(a) |-> Quote(Coincheck, Ask, a[i][1], a[i][2])]
      bids == [i \in 1..Len(b) |-> Quote(Coincheck, Bid, b[i][1], b[i][2])]
  IN asks \o bids

FetchQuotesCall ==
  /\ quotes.pc = "idle"
  /\ quotes' = [pc |-> "awaitOrderBooks", outcome |-> "running", failed |-> FALSE,
                response |-> NoBook, result |-> <<>>]
  /\ UNCHANGED <<orderVars, now, exchVars, adapter>>

FetchQuotesReply(response) ==
  /\ quotes.pc = "awaitOrderBooks"
  /\ quotes' = [pc |-> "idle", outcome |-> "returned", failed |-> FALSE,
                response |-> response, result |-> mapToQuote(response)]
  /\ UNCHANGED <<orderVars, now, exchVars, adapter>>

FetchQuotesError_Propagated ==
  /\ quotes.pc = "awaitOrderBooks"
  /\ quotes' = [pc |-> "idle", outcome |-> "TransportError", failed |-> TRUE,
                response |-> NoBook, result |-> <<>>]
  /\ UNCHANGED <<orderVars, now, exchVars, adapter>>

\* getOrderBooks throws: the error is logged and swallowed
FetchQuotesError ==
  /\ quotes.pc = "awaitOrderBooks"
  /\ quotes' = [pc |-> "idle", outcome |-> "returned", failed |-> TRUE,
                response |-> NoBook, result |-> <<>>]
  /\ UNCHANGED <<orderVars, now, exchVars, adapter>>

NextQuotes ==
  \/ FetchQuotesCall
  \/ \E response \in OrderBooks : FetchQuotesReply(response)
  \/ FetchQuotesError

SpecQuotes == Init /\ [][NextQuotes]_vars

\* ---- send and getBtcPosition: strategy dispatch ----
\* order.broker !== this.broker
BrokerMismatch_Never(o) == FALSE
BrokerMismatch(o) == order[o].broker # Coincheck

\* the mode send resolves the strategy by: order.cashMarginType
SendMode_Config(o) == adapter.config.cashMarginType
SendMode(o) == order[o].cashMarginType

\* send throws before any remote call: the call begins and ends in one step
SendThrows(o, error) ==
  /\ pre' = [pre EXCEPT ![o] = order[o]]
  /\ prev' = [prev EXCEPT ![o] = NoSeen]
  /\ last' = [last EXCEPT ![o] = [Started("send") EXCEPT !.outcome = error]]
  /\ issued' = [issued EXCEPT ![o] = <<>>]
  /\ UNCHANGED pc

SendCall(o) ==
  /\ pc[o] = "idle"
  /\ LET strategy == StrategyMapGet(adapter.strategyMap, SendMode(o))
     IN IF BrokerMismatch(o)
          THEN SendThrows(o, "Error")
          ELSE IF strategy = Undefined
            THEN SendThrows(o, "StrategyNotFound")
            ELSE /\ Begin(o, "send", [call |-> "send", arg |-> strategy])
                 /\ pc' = [pc EXCEPT ![o] = "awaitSend"]
  /\ UNCHANGED <<order, now, exchVars, quotes, adapter>>

\* strategy.send(order) returns
SendReply(o) ==
  /\ pc[o] = "awaitSend"
  /\ End(o, [last[o] EXCEPT !.outcome = "ok"])
  /\ UNCHANGED <<order, now, exchVars, quotes, adapter>>

\* strategy.send(order) throws
SendError(o) ==
  /\ pc[o] = "awaitSend"
  /\ End(o, [last[o] EXCEPT !.outcome = "TransportError"])
  /\ UNCHANGED <<order, now, exchVars, quotes, adapter>>

GetPositionCall ==
  /\ adapter.pc = "idle"
  /\ LET strategy == StrategyMapGet(adapter.strategyMap, adapter.config.cashMarginType)
     IN IF strategy = Undefined
          THEN adapter' = [adapter EXCEPT !.outcome = "StrategyNotFound",
                                          !.invoked = <<>>, !.position = 0]
          ELSE adapter' = [adapter EXCEPT !.pc = "awaitPosition",
                              !.outcome = "running", !.position = 0,
                              !.invoked = <<[call |-> "getBtcPosition",
                                             arg |-> strategy]>>]
  /\ UNCHANGED <<orderVars, now, exchVars, quotes>>

\* strategy.getBtcPosition() returns
GetPositionReply(position) ==
  /\ adapter.pc = "awaitPosition"
  /\ adapter' = [adapter EXCEPT !.pc = "idle", !.outcome = "returned",
                                 !.position = position]
  /\ UNCHANGED <<orderVars, now, exchVars, quotes>>

\* strategy.getBtcPosition() throws
GetPositionError ==
  /\ adapter.pc = "awaitPosition"
  /\ adapter' = [adapter EXCEPT !.pc = "idle", !.outcome = "TransportError"]
  /\ UNCHANGED <<orderVars, now, exchVars, quotes>>

\* orders of any broker tag and mode, an adapter configured with any mode
InitDispatch ==
  /\ order \in [Orders -> { TaggedOrder(s, b, m) :
                              s \in Sizes, b \in Brokers, m \in CashMarginTypes }]
  /\ pc = [o \in Orders |-> "idle"]
  /\ pre = order
  /\ last = [o \in Orders |-> NoCall]
  /\ prev = [o \in Orders |-> NoSeen]
  /\ issued = [o \in Orders |-> <<>>]
  /\ now = 0
  /\ book = [o \in Orders |-> [listed |-> TRUE, pending |-> order[o].size]]
  /\ ledger = <<>>
  /\ quotes = [pc |-> "idle", outcome |-> "none", failed |-> FALSE,
               response |-> [asks |-> <<>>, bids |-> <<>>], result |-> <<>>]
  /\ adapter \in { NewAdapter(m) : m \in CashMarginTypes }

NextDispatch ==
  \/ \E o \in Orders : SendCall(o)
  \/ \E o \in Orders : SendReply(o)
  \/ \E o \in Orders : SendError(o)
  \/ GetPositionCall
  \/ \E position \in Positions : GetPositionReply(position)
  \/ GetPositionError

SpecDispatch == InitDispatch /\ [][NextDispatch]_vars

\* ---- calls on two orders, interleaved at their suspension points ----
InterleavedOpenOrders ==
  { <<>>, <<Entry(1, TRUE, 3)>>, <<Entry(2, TRUE, 3)>>,
    <<Entry(2, TRUE, 6), Entry(1, TRUE, 3)>>, <<Entry(1, TRUE, 0), Entry(2, TRUE, 3)>> }
InterleavedFeeds ==
  { <<>>, <<Tx(1, [created_at |-> 1, rate |-> 2, btc |-> -3])>>,
    <<Tx(2, [created_at |-> 2, rate |-> 1, btc |-> 2])>>,
    <<Tx(2, [created_at |-> 2, rate |-> 1, btc |-> 2]),
      Tx(1, [created_at |-> 1, rate |-> 2, btc |-> -3])>> }

NextInterleaved ==
  \/ Tick
  \/ \E o \in Orders : CancelCall(o)
  \/ \E o \in Orders : \E success \in BOOLEAN : CancelReply(o, success)
  \/ \E o \in Orders : CancelError(o)
  \/ \E o \in Orders : RefreshCall(o)
  \/ \E o \in Orders : \E orders \in InterleavedOpenOrders : OpenOrdersReply(o, orders)
  \/ \E o \in Orders : OpenOrdersError(o)
  \/ \E o \in Orders : \E feed \in InterleavedFeeds : TransactionsReply(o, feed)
  \/ \E o \in Orders : TransactionsError(o)
  \/ \E o \in Orders : SendCall(o)
  \/ \E o \in Orders : SendReply(o)
  \/ \E o \in Orders : SendError(o)

SpecInterleaved == Init /\ [][NextInterleaved]_vars

\* ---- the claims ----
\* a refresh of order o has ended (returned or thrown)
RefreshEnded(o) ==
  pc[o] = "idle" /\ last[o].op = "refresh" /\ last[o].outcome # "TransportError"

\* the matching transactions of the feed the last call on o was served
MatchingSeen(o) == SelectSeq(last[o].feed, LAMBDA x : x.order_id = o)

\* refresh of o took the historical path and found transactions of the order
HistoricalHit(o) ==
  /\ RefreshEnded(o)
  /\ last[o].opened /\ ~last[o].found /\ last[o].fed
  /\ MatchingSeen(o) # <<>>

\* refresh of o found the order in the open-orders snapshot
OpenHit(o) == RefreshEnded(o) /\ last[o].opened /\ last[o].found

\* C1: once an order's status is Filled or Canceled, no step of a refresh or
\* cancel call changes it to Open or PartiallyFilled.
C1_TerminalNeverLeft ==
  [][\A o \in Orders :
       order[o].status \in Terminal => order'[o].status \in Terminal]_vars

\* C2: when refresh finds the order in the open-orders snapshot with
\* pending_amount absent or exactly 0, it fails with UnexpectedReply and
\* every field of the order equals its pre-call value.
C2_UnexpectedReplyLeavesOrder ==
  \A o \in Orders :
    (/\ OpenHit(o)
     /\ ~last[o].entry.has_pending \/ last[o].entry.pending_amount = 0)
    => /\ last[o].outcome = "UnexpectedReply"
       /\ order[o] = pre[o]

C2_Witness ==
  \E o \in Orders :
    /\ OpenHit(o)
    /\ last[o].entry.has_pending /\ last[o].entry.pending_amount = 0
    /\ last[o].outcome = "UnexpectedReply"
    /\ order[o].status = PartiallyFilled
    /\ order[o].lastUpdated < now

\* C3: when refresh finds the order in the open-orders snapshot with a
\* present, non-zero pending_amount, filledSize becomes
\* round(size - pending_amount), status becomes PartiallyFilled if that is
\* positive and otherwise stays as it was, and executions are unchanged.
C3_OpenPathUpdate ==
  \A o \in Orders :
    (/\ OpenHit(o)
     /\ last[o].entry.has_pending /\ last[o].entry.pending_amount # 0)
    => /\ last[o].outcome = "ok"
       /\ order[o].filledSize = eRound(pre[o].size - last[o].entry.pending_amount)
       /\ order[o].filledSize > 0 => order[o].status = PartiallyFilled
       /\ order[o].filledSize <= 0 => order[o].status = pre[o].status
       /\ order[o].executions = pre[o].executions

C3_Witness ==
  \E o \in Orders :
    /\ OpenHit(o) /\ last[o].outcome = "ok"
    /\ last[o].entry.pending_amount = pre[o].size
    /\ pre[o].status = Canceled
    /\ order[o].status = Canceled
    /\ order[o].filledSize = 0 /\ pre[o].filledSize > 0
    /\ order[o].executions # <<>>

\* C4: when refresh finds the order neither in the open-orders snapshot nor
\* in any transaction of the feed, it returns without raising and leaves
\* every field of the order unchanged.
C4_NotFoundIsNoOp ==
  \A o \in Orders :
    (/\ RefreshEnded(o)
     /\ last[o].opened /\ ~last[o].found /\ last[o].fed
     /\ MatchingSeen(o) = <<>>)
    => /\ last[o].outcome = "ok"
       /\ order[o] = pre[o]

C4_Witness ==
  \E o \in Orders :
    /\ RefreshEnded(o)
    /\ last[o].opened /\ ~last[o].found /\ last[o].fed
    /\ last[o].feed # <<>> /\ MatchingSeen(o) = <<>>
    /\ order[o].status = PartiallyFilled
    /\ order[o].lastUpdated < now

\* C5: when the order is absent from open orders and at least one matching
\* transaction exists, the final status is Filled if the new filledSize
\* equals the requested size within the tolerance, and Canceled otherwise.
C5_HistoricalStatus ==
  \A o \in Orders :
    HistoricalHit(o)
    => /\ last[o].outcome = "ok"
       /\ order[o].status =
            IF Abs(order[o].filledSize - order[o].size) <= Prec
              THEN Filled ELSE Canceled

C5_Witness ==
  \E o \in Orders :
    /\ HistoricalHit(o)
    /\ pre[o].status = PartiallyFilled
    /\ 0 < order[o].filledSize
    /\ order[o].filledSize < order[o].size - Prec
    /\ order[o].status = Canceled

\* C6: on the historical path with matching transactions, executions is
\* replaced by exactly one Execution per matching transaction, in feed
\* order, with size = |base-currency delta| >= 0, price = rate and
\* time = created_at; filledSize is the rounded sum of those sizes.
C6_ExecutionsRebuilt ==
  \A o \in Orders :
    HistoricalHit(o)
    => LET txs == MatchingSeen(o)
           total == SumSize(order[o].executions)
       IN /\ Len(order[o].executions) = Len(txs)
          /\ \A i \in 1..Len(txs) :
               /\ order[o].executions[i].execTime = txs[i].created_at
               /\ order[o].executions[i].price = txs[i].rate
               /\ order[o].executions[i].size \in {txs[i].btc, -txs[i].btc}
               /\ order[o].executions[i].size >= 0
          /\ order[o].filledSize % Prec = 0
          /\ 2 * Abs(order[o].filledSize - total) <= Prec

C6_Witness ==
  \E o \in Orders :
    /\ HistoricalHit(o)
    /\ pre[o].executions # <<>>
    /\ Len(last[o].feed) > Len(MatchingSeen(o))
    /\ Len(order[o].executions) = 1
    /\ order[o].executions # pre[o].executions
    /\ MatchingSeen(o)[1].btc < 0

\* C7: cancel sets status to Canceled and lastUpdated to the current time
\* exactly when the cancelOrder reply has success = true; when it has
\* success = false, cancel raises CancelFailed and the order is unchanged.
C7_CancelFollowsAck ==
  [][\A o \in Orders :
       (pc[o] = "awaitCancel" /\ pc'[o] = "idle")
       => \/ /\ last'[o].ack = "true"
             /\ last'[o].outcome = "ok"
             /\ order'[o] = [order[o] EXCEPT !.status = Canceled,
                                             !.lastUpdated = now]
          \/ /\ last'[o].ack = "false"
             /\ last'[o].outcome = "CancelFailed"
             /\ order'[o] = order[o]
          \/ /\ last'[o].ack = "none"
             /\ last'[o].outcome = "TransportError"]_vars

C7_Witness ==
  \E o \in Orders :
    /\ pc[o] = "idle" /\ last[o].op = "cancel"
    /\ last[o].ack = "false" /\ last[o].outcome = "CancelFailed"
    /\ order[o].status = PartiallyFilled
    /\ order[o] = pre[o]
    /\ order[o].lastUpdated < now

\* C8: for an order already Filled or Canceled and absent from open orders,
\* a refresh that sees the same matching transactions as the refresh just
\* before it leaves status, filledSize and executions as that one left them.
C8_RefreshIdempotent ==
  \A o \in Orders :
    (HistoricalHit(o) /\ last[o].again /\ pre[o].status \in Terminal)
    => /\ order[o].status = pre[o].status
       /\ order[o].filledSize = pre[o].filledSize
       /\ order[o].executions = pre[o].executions
       /\ Len(order[o].executions) = Len(MatchingSeen(o))

C8_Witness ==
  \E o \in Orders :
    /\ HistoricalHit(o) /\ last[o].again
    /\ pre[o].status = Canceled
    /\ Len(order[o].executions) = 2
    /\ order[o].lastUpdated > pre[o].lastUpdated

\* C9 as stated: while the exchange's pending amount never increases, a
\* delisted order never reappears and the feed only grows, filledSize never
\* decreases in any step.
C9_FilledSizeMonotone ==
  [][\A o \in Orders : order'[o].filledSize >= order[o].filledSize]_vars

\* the feed already shows at least what the open book has reported filled
FeedCoversBook(o) ==
  SumSize(NewExecutions(<<>>, Matching(ledger, o))) >= order[o].size - book[o].pending

\* C9 amended: under the same exchange behaviour, filledSize does not
\* decrease in a step taken while the order's matching transactions in the
\* feed sum to at least size - pending amount (the feed does not lag behind
\* the open book).
C9_FilledSizeMonotoneWhenFeedCovers ==
  [][\A o \in Orders :
       FeedCoversBook(o) => order'[o].filledSize >= order[o].filledSize]_vars

C9_Witness ==
  \E o \in Orders :
    /\ HistoricalHit(o)
    /\ FeedCoversBook(o)
    /\ pre[o].status = PartiallyFilled
    /\ pre[o].filledSize > 0
    /\ pre[o].executions = <<>>
    /\ order[o].filledSize > pre[o].filledSize

\* the first n elements of a sequence
FirstOf(levels, n) == [i \in 1..(IF Len(levels) < n THEN Len(levels) ELSE n) |-> levels[i]]

\* C10: fetchQuotes never propagates an error: it returns an empty list when
\* the order-book query fails and the list built from the response when it
\* succeeds.
C10_FetchQuotesNeverThrows ==
  (quotes.pc = "idle" /\ quotes.outcome # "none")
  => /\ quotes.outcome = "returned"
     /\ quotes.failed => quotes.result = <<>>
     /\ ~quotes.failed =>
          LET a == FirstOf(quotes.response.asks, QuoteCap)
              b == FirstOf(quotes.response.bids, QuoteCap)
          IN /\ Len(quotes.result) = Len(a) + Len(b)
             /\ \A i \in 1..Len(a) :
                  quotes.result[i] = [broker |-> Coincheck, side |-> Ask,
                                      price |-> a[i][1], size |-> a[i][2]]
             /\ \A i \in 1..Len(b) :
                  quotes.result[Len(a) + i] = [broker |-> Coincheck, side |-> Bid,
                                               price |-> b[i][1], size |-> b[i][2]]

C10_Witness ==
  /\ quotes.pc = "idle" /\ quotes.outcome = "returned"
  /\ quotes.failed /\ quotes.result = <<>>

Min(m, n) == IF m < n THEN m ELSE n

\* C11: for an order book with a asks and b bids the quote builder returns
\* exactly min(a,100) + min(b,100) quotes: the first min(a,100) asks in input
\* order tagged Ask, then the first min(b,100) bids in input order tagged
\* Bid, each with the price and size of its level; empty inputs give <<>>.
C11_QuoteBuilderTruncates ==
  (quotes.pc = "idle" /\ quotes.outcome = "returned" /\ ~quotes.failed)
  => LET asks == quotes.response.asks
         bids == quotes.response.bids
         na == Min(Len(asks), 100)
         nb == Min(Len(bids), 100)
     IN /\ Len(quotes.result) = na + nb
        /\ \A i \in 1..Len(quotes.result) :
             LET q == quotes.result[i]
                 level == IF i <= na THEN asks[i] ELSE bids[i - na]
             IN /\ q.side = IF i <= na THEN "Ask" ELSE "Bid"
                /\ q.price = level[1]
                /\ q.size = level[2]
        /\ (asks = <<>> /\ bids = <<>>) => quotes.result = <<>>

C11_Witness ==
  /\ quotes.pc = "idle" /\ quotes.outcome = "returned" /\ ~quotes.failed
  /\ Len(quotes.response.asks) > 100
  /\ Len(quotes.response.bids) > 100
  /\ Len(quotes.result) = 200
  /\ quotes.result[100].side = "Ask" /\ quotes.result[101].side = "Bid"

\* C12: send on an order whose broker tag differs from the adapter's
\* identity rejects with an error and invokes no strategy's placement; the
\* check precedes strategy resolution, so the error is the broker error
\* even when the order's mode has no strategy.
C12_SendRejectsForeignOrder ==
  \A o \in Orders :
    (last[o].op = "send" /\ order[o].broker # "Coincheck")
    => /\ pc[o] = "idle"
       /\ last[o].outcome = "Error"
       /\ issued[o] = <<>>

C12_Witness ==
  \E o \in Orders :
    /\ last[o].op = "send" /\ pc[o] = "idle"
    /\ order[o].broker = OtherBroker
    /\ order[o].cashMarginType = UnmappedMode
    /\ last[o].outcome = "Error"
    /\ issued[o] = <<>>

\* the strategy each enumerated mode is mapped to at construction
ExpectedStrategy(mode) ==
  CASE mode = "Cash" -> "CashStrategy"
    [] mode = "MarginOpen" -> "MarginOpenStrategy"
    [] mode = "NetOut" -> "NetOutStrategy"
    [] OTHER -> "none"

\* C13: send invokes placement exactly once on the strategy of the order's
\* own mode, whatever the adapter's configured mode; getPosition delegates to
\* the strategy of the adapter's configured mode; for a mode outside
\* {Cash, MarginOpen, NetOut} both fail with StrategyNotFound and invoke no
\* strategy operation; the mapping is the same in every state.
C13_StrategyDispatch ==
  /\ \A o \in Orders :
       (last[o].op = "send" /\ order[o].broker = "Coincheck")
       => IF order[o].cashMarginType \in {"Cash", "MarginOpen", "NetOut"}
            THEN /\ last[o].outcome \in {"running", "ok", "TransportError"}
                 /\ Len(issued[o]) = 1
                 /\ issued[o][1].call = "send"
                 /\ issued[o][1].arg = ExpectedStrategy(order[o].cashMarginType)
            ELSE /\ last[o].outcome = "StrategyNotFound"
                 /\ pc[o] = "idle"
                 /\ issued[o] = <<>>
  /\ adapter.outcome # "none"
       => IF adapter.config.cashMarginType \in {"Cash", "MarginOpen", "NetOut"}
            THEN /\ adapter.outcome \in {"running", "returned", "TransportError"}
                 /\ Len(adapter.invoked) = 1
                 /\ adapter.invoked[1].call = "getBtcPosition"
                 /\ adapter.invoked[1].arg =
                      ExpectedStrategy(adapter.config.cashMarginType)
            ELSE /\ adapter.outcome = "StrategyNotFound"
                 /\ adapter.pc = "idle"
                 /\ adapter.invoked = <<>>
  /\ DOMAIN adapter.strategyMap = {"Cash", "MarginOpen", "NetOut"}
  /\ \A m \in DOMAIN adapter.strategyMap :
       adapter.strategyMap[m] = ExpectedStrategy(m)

C13_Witness ==
  \E o \in Orders :
    /\ last[o].op = "send" /\ last[o].outcome = "ok" /\ pc[o] = "idle"
    /\ order[o].cashMarginType = NetOut
    /\ adapter.config.cashMarginType = Cash
    /\ issued[o] = <<[call |-> "send", arg |-> "NetOutStrategy"]>>
    /\ adapter.outcome = "returned"
    /\ adapter.invoked = <<[call |-> "getBtcPosition", arg |-> "CashStrategy"]>>

\* C15: every refresh issues the open-orders query exactly once and first;
\* it issues the transactions query at most once, only after the
\* open-orders reply and only when the order is absent from that reply; an
\* order found in open orders never leads to a transactions query; no
\* remote call is repeated.
C15_RefreshProtocol ==
  \A o \in Orders :
    last[o].op = "refresh"
    => /\ Len(issued[o]) \in {1, 2}
       /\ issued[o][1].call = "getOpenOrders"
       /\ Len(issued[o]) = 2
            => /\ issued[o][2].call = "getTransactionsWithStartDate"
               /\ last[o].opened /\ ~last[o].found
       /\ (last[o].found \/ ~last[o].opened) => Len(issued[o]) = 1
       /\ last[o].fed => Len(issued[o]) = 2

C15_Witness ==
  \E o \in Orders :
    /\ OpenHit(o)
    /\ last[o].outcome = "UnexpectedReply"
    /\ issued[o] = <<[call |-> "getOpenOrders", arg |-> 0]>>
    /\ pre[o].executions # <<>>

\* C16: whenever refresh or cancel ends by raising an error (UnexpectedReply,
\* CancelFailed, or a transport error of getOpenOrders,
\* getTransactionsWithStartDate or cancelOrder), every field of the order
\* equals its pre-call value.
C16_FailureLeavesOrder ==
  \A o \in Orders :
    (/\ pc[o] = "idle"
     /\ last[o].op \in {"refresh", "cancel"}
     /\ last[o].outcome # "ok")
    => order[o] = pre[o]

C16_Witness ==
  \E o \in Orders :
    /\ pc[o] = "idle" /\ last[o].op = "refresh"
    /\ last[o].opened /\ ~last[o].found /\ ~last[o].fed
    /\ last[o].outcome = "TransportError"
    /\ Len(issued[o]) = 2
    /\ order[o].status = PartiallyFilled
    /\ order[o].lastUpdated < now

\* C17: in every state reachable from an Open order with no executions,
\* status = Filled implies that executions is non-empty and that filledSize
\* equals the requested size within the tolerance.
C17_FilledHasFills ==
  \A o \in Orders :
    order[o].status = Filled
    => /\ order[o].executions # <<>>
       /\ Abs(order[o].filledSize - order[o].size) <= Prec

\* C18: a step of refresh gives the order a terminal status it did not have
\* only when the order is absent from the open-orders snapshot and has a
\* matching transaction; a refresh that finds the order neither in the
\* snapshot nor in the feed leaves the status as it was.
C18_TerminalOnlyFromFeed ==
  [][\A o \in Orders :
       pc[o] \in {"awaitOpenOrders", "awaitTransactions"}
       => /\ (order'[o].status \in Terminal /\ order'[o].status # order[o].status)
               => /\ last'[o].opened /\ ~last'[o].found /\ last'[o].fed
                  /\ SelectSeq(last'[o].feed, LAMBDA x : x.order_id = o) # <<>>
          /\ (/\ last'[o].opened /\ ~last'[o].found /\ last'[o].fed
              /\ SelectSeq(last'[o].feed, LAMBDA x : x.order_id = o) = <<>>)
               => order'[o].status = order[o].status]_vars

C18_Witness ==
  \E o \in Orders :
    /\ RefreshEnded(o) /\ last[o].outcome = "ok"
    /\ last[o].opened /\ ~last[o].found /\ last[o].fed
    /\ MatchingSeen(o) = <<>>
    /\ pre[o].status = Open /\ order[o].status = Open
    /\ pre[o].filledSize = 0

\* the order fields the last call on o writes when it runs alone from
\* pre[o] against the replies it was given (lastUpdated apart)
AloneResult(o) ==
  LET c == last[o]
      p == pre[o]
      txs == SelectSeq(c.feed, LAMBDA x : x.order_id = o)
      filledOpen == eRound(p.size - c.entry.pending_amount)
      execs == [i \in 1..Len(txs) |->
                  [execTime |-> txs[i].created_at, price |-> txs[i].rate,
                   size |-> Abs(txs[i].btc)]]
      filledFeed == eRound(SumSize(execs))
  IN CASE c.op = "cancel" /\ c.ack = "true" ->
            [p EXCEPT !.status = Canceled]
       [] c.op = "refresh" /\ c.found /\ c.entry.has_pending
            /\ c.entry.pending_amount # 0 ->
            [p EXCEPT !.filledSize = filledOpen,
                      !.status = IF filledOpen > 0 THEN PartiallyFilled ELSE @]
       [] c.op = "refresh" /\ c.opened /\ ~c.found /\ c.fed /\ txs # <<>> ->
            [p EXCEPT !.executions = execs,
                      !.filledSize = filledFeed,
                      !.status = IF Abs(filledFeed - p.size) <= Prec
                                   THEN Filled ELSE Canceled]
       [] OTHER -> p

\* the last call on o wrote the order
Wrote(o) ==
  \/ last[o].op = "cancel" /\ last[o].ack = "true"
  \/ last[o].op = "refresh" /\ last[o].outcome = "ok"
       /\ (last[o].found \/ SelectSeq(last[o].feed, LAMBDA x : x.order_id = o) # <<>>)

\* C14: for any interleaving of refresh/cancel/send calls on two distinct
\* orders, an order is not written while its own call is suspended or by a
\* call on the other order, and when its call has ended it has exactly the
\* fields that call gives it when run alone against the same replies.
C14_InterleavingIsolated ==
  \A o \in Orders :
    /\ pc[o] # "idle" => order[o] = pre[o]
    /\ (pc[o] = "idle" /\ last[o].op # "none")
         => /\ [order[o] EXCEPT !.lastUpdated = 0]
                 = [AloneResult(o) EXCEPT !.lastUpdated = 0]
            /\ IF Wrote(o)
                 THEN /\ pre[o].lastUpdated <= order[o].lastUpdated
                      /\ order[o].lastUpdated <= now
                 ELSE order[o].lastUpdated = pre[o].lastUpdated
    /\ last[o].op = "none" => order[o] = pre[o]

C14_Witness ==
  /\ pc[1] = "idle" /\ pc[2] = "idle"
  /\ last[1].op = "cancel" /\ last[1].outcome = "ok" /\ last[1].overlap
  /\ order[1].status = Canceled /\ order[1].filledSize > 0
  /\ last[2].op = "refresh" /\ last[2].outcome = "ok"
  /\ order[2].status = PartiallyFilled
  /\ order[2].executions = <<>>
====
